---------------------------- MODULE Spec2Model ----------------------------
(***************************************************************************)
(* The GroundwaterChat component (src/src/components/GroundwaterChat.tsx)  *)
(* and its host page (src/src/pages/Index.tsx) as a state machine.         *)
(*                                                                         *)
(* A text is a sequence of atoms (strings).  The text it stands for is the *)
(* concatenation of its atoms; an atom is either one of the keywords the   *)
(* code searches for, a differently-cased spelling of one, a run of white  *)
(* space, or a fragment that contains no keyword in any letter case, so    *)
(* that String.includes(keyword) is membership of the keyword among the    *)
(* lower-cased atoms.  This holds of every text that can reach the input   *)
(* field (typed text, transcripts, chips, sample queries); the body of an  *)
(* assistant Message is never searched and is kept in few atoms.           *)
(* Devanagari literals of the source are written in Latin transliteration  *)
(* (the parser reads ASCII only):                                          *)
(*   gunvatta = quality, tulna = compare, bhavishyavani = predict,         *)
(*   star = level.                                                         *)
(***************************************************************************)
EXTENDS Naturals, Sequences, FiniteSets

VARIABLES
  language,            \* Index.tsx: useState<'en' | 'hi'>('en')
  messages,            \* useState<Message[]>([])
  inputValue,          \* useState('')
  isListening,         \* useState(false)
  isProcessing,        \* useState(false)
  userLocation,        \* useState<LocationData | null>(null): <<>> is null
  locationPermission,  \* useState('pending')
  recognitionRef,      \* useRef(null): <<>> is null, else <<recognizer>>
  renderedRef,         \* recognitionRef.current # null as the last render saw it
  orphans,             \* recognizers replaced by a language change, session still live
  geo,                 \* the geolocation request: state and the closure's language
  inflight,            \* generateResponse calls waiting in their setTimeout
  now,                 \* Date.now(), in milliseconds
  platform,            \* what the browser offers: fixed for the session
  mounted,             \* the mount effects have run
  origin,              \* history: for each stored Message, the event that made it
  responded            \* history: per accepted submit, responses appended so far

vars == <<language, messages, inputValue, isListening, isProcessing,
          userLocation, locationPermission, recognitionRef, renderedRef,
          orphans, geo, inflight, now, platform, mounted, origin, responded>>

---------------------------------------------------------------------------
(* Bounds of the model *)

\* a store this long takes no Message but the responses still owed
MaxMessages == 2
\* the clock runs over this many response delays
NumPeriods == 1
\* single milliseconds the clock may advance inside one delay period
MaxJitter == 1
\* recognizers that keep a live session after being replaced
MaxOrphans == 0
\* longest typed text, in atoms
MaxTyped == 1
\* of the chips a Message or the welcome card shows, the user clicks the first ones
MaxChip == 1
\* longest text given to generateResponse in SpecGen, in atoms
MaxGenLen == 3

(* Program constants *)

\* setTimeout(resolve, 1000)
ResponseDelay == 1000

MaxNow == NumPeriods * ResponseDelay + MaxJitter

Languages == {"en", "hi"}

---------------------------------------------------------------------------
(* Texts *)

Whitespace == {" "}

\* String.prototype.toLowerCase on one atom
LowerAtom(a) ==
  CASE a = "Quality" -> "quality"
    [] a = "QUALITY" -> "quality"
    [] a = "Compare" -> "compare"
    [] a = "COMPARE" -> "compare"
    [] a = "Predict" -> "predict"
    [] a = "PREDICT" -> "predict"
    [] a = "Level" -> "level"
    [] a = "LEVEL" -> "level"
    [] OTHER -> a

toLowerCase(text) == [i \in DOMAIN text |-> LowerAtom(text[i])]

includes(text, keyword) == \E i \in DOMAIN text : text[i] = keyword

RECURSIVE TrimStart(_)
TrimStart(text) ==
  IF text # <<>> /\ Head(text) \in Whitespace THEN TrimStart(Tail(text)) ELSE text

RECURSIVE TrimEnd(_)
TrimEnd(text) ==
  IF text # <<>> /\ text[Len(text)] \in Whitespace
  THEN TrimEnd(SubSeq(text, 1, Len(text) - 1))
  ELSE text

trim(text) == TrimEnd(TrimStart(text))

\* the truthiness of a string: '' is falsy
Truthy(text) == text # <<>>

---------------------------------------------------------------------------
(* Messages.  An optional field of the interface that a Message leaves out  *)
(* (showChart, showComparison, data.isPrediction) is FALSE, which is how    *)
(* the render reads undefined; suggestions left out is <<>>.  timestamp is  *)
(* the instant id is taken at and is not kept apart.                        *)

Message(id, text, isUser, showChart, showComparison, isPrediction, suggestions) ==
  [id |-> id, text |-> text, isUser |-> isUser, showChart |-> showChart,
   showComparison |-> showComparison, isPrediction |-> isPrediction,
   suggestions |-> suggestions]

\* translations[language].sampleQueries
sampleQueries(lang) ==
  IF lang = "hi"
  THEN << <<"dilli mein bhujal ", "gunvatta", " dikhaen">>,
          <<"mumbai aur pune ke bich pani ke ", "star", " ki ", "tulna", " karen">>,
          <<"bangalore mein agle 5 sal ke lie pani ke ", "star", " ki ",
            "bhavishyavani", " karen">> >>
  ELSE << <<"Show groundwater ", "quality", " in Delhi">>,
          <<"Compare", " water ", "level", "s between Mumbai and Pune">>,
          <<"Predict", " water ", "level", "s for next 5 years in Bangalore">> >>

\* the greeting built by the success callback of getCurrentPosition
welcomeMessage(lang, t) ==
  Message(t,
    IF lang = "hi"
    THEN <<"apka sthan mil gaya! ab main apke kshetra ke lie bhujal ki jankari pradan kar sakta hun.">>
    ELSE <<"Location found! I can now provide groundwater information for your area.">>,
    FALSE, FALSE, FALSE, FALSE,
    << IF lang = "hi" THEN <<"mere kshetra mein pani ki ", "gunvatta", " kaisi hai?">>
                      ELSE <<"How is water ", "quality", " in my area?">>,
       IF lang = "hi" THEN <<"pani ka ", "star", " dikhaen">>
                      ELSE <<"Show water ", "level", "s">>,
       IF lang = "hi" THEN <<"5 sal ki ", "bhavishyavani">>
                      ELSE <<"5-year ", "predict", "ion">> >>)

\* the fallback built by the error callback of getCurrentPosition
errorMessage(lang, t) ==
  Message(t,
    IF lang = "hi"
    THEN <<"sthan ki anumati nahin mili. ap abhi bhi kisi bhi sthan ke bare mein puchh sakte hain.">>
    ELSE <<"Location permission denied. You can still ask about any location.">>,
    FALSE, FALSE, FALSE, FALSE,
    << IF lang = "hi" THEN <<"dilli mein pani ki ", "gunvatta">>
                      ELSE <<"Water ", "quality", " in Delhi">>,
       IF lang = "hi" THEN <<"mumbai aur pune ki ", "tulna">>
                      ELSE <<"Compare", " Mumbai and Pune">>,
       IF lang = "hi" THEN <<"bangalore ka data">>
                      ELSE <<"Bangalore data">> >>)

\* a switch that falls to its default for every error kind
speechErrorText_Generic(lang, error) ==
  IF lang = "hi" THEN <<"voice recognition mein samasya">>
                 ELSE <<"Voice recognition error">>

\* the switch of recognitionRef.current.onerror
speechErrorText(lang, error) ==
  CASE error = "not-allowed" ->
         IF lang = "hi" THEN <<"maikrofon ki anumati den">>
                        ELSE <<"Please allow microphone access">>
    [] error = "no-speech" ->
         IF lang = "hi" THEN <<"koi avaz nahin suni gai">>
                        ELSE <<"No speech detected">>
    [] OTHER ->
         IF lang = "hi" THEN <<"voice recognition mein samasya">>
                        ELSE <<"Voice recognition error">>

\* a Message with text only: { id, text, isUser: false, timestamp }
errorMsg(text, t) == Message(t, text, FALSE, FALSE, FALSE, FALSE, <<>>)

notAvailableText(lang) ==
  IF lang = "hi" THEN <<"voice recognition uplabdh nahin hai">>
                 ELSE <<"Voice recognition not available">>

httpsRequiredText(lang) ==
  IF lang = "hi" THEN <<"HTTPS connection ki avashyakta">>
                 ELSE <<"HTTPS connection required for voice">>

\* a catch that reports the capability as absent
couldNotStartText_NotAvailable(lang) == notAvailableText(lang)

couldNotStartText(lang) ==
  IF lang = "hi" THEN <<"voice recognition shuru nahin ho saka">>
                 ELSE <<"Could not start voice recognition">>

\* { id, text: inputValue, isUser: true, timestamp }
userMessage(text, t) == Message(t, text, TRUE, FALSE, FALSE, FALSE, <<>>)

---------------------------------------------------------------------------
(* generateResponse, after its delay: lang and loc are the language and    *)
(* userLocation of the render whose closure made the call, t is Date.now() *)

qualityResponse(lang, loc, t) ==
  Message(t,
    IF lang = "hi"
    THEN <<IF loc # <<>> THEN "apke kshetra" ELSE "is kshetra",
           " ke lie bhujal gunvatta data. data se pata chalta hai ki pani ki gunvatta achchhi hai.">>
    ELSE <<"Groundwater quality data for ",
           IF loc # <<>> THEN "your area" ELSE "this area",
           ". The data shows good water quality with acceptable TDS levels.">>,
    FALSE, TRUE, FALSE, FALSE,
    << IF lang = "hi" THEN <<"pani ka ", "star", " trend dikhaen">>
                      ELSE <<"Show water ", "level", " trends">>,
       IF lang = "hi" THEN <<"anya shaharon se ", "tulna", " karen">>
                      ELSE <<"Compare", " with other cities">>,
       IF lang = "hi" THEN <<"bhavishya ki ", "bhavishyavani">>
                      ELSE <<"Future ", "predict", "ions">> >>)

\* a comparison response that asks for the chart as well
comparisonResponse_WithChart(lang, loc, t) ==
  Message(t,
    IF lang = "hi"
    THEN <<"yahan do sthanon ke bich bhujal ki tulna hai.">>
    ELSE <<"Here's a comparison of groundwater data between the two locations.">>,
    FALSE, TRUE, TRUE, FALSE,
    << IF lang = "hi" THEN <<"aur shahar joden">> ELSE <<"Add more cities">>,
       IF lang = "hi" THEN <<"vistrit report">> ELSE <<"Detailed report">>,
       IF lang = "hi" THEN <<"download data">> ELSE <<"Download data">> >>)

comparisonResponse(lang, loc, t) ==
  Message(t,
    IF lang = "hi"
    THEN <<"yahan do sthanon ke bich bhujal ki tulna hai.">>
    ELSE <<"Here's a comparison of groundwater data between the two locations.">>,
    FALSE, FALSE, TRUE, FALSE,
    << IF lang = "hi" THEN <<"aur shahar joden">> ELSE <<"Add more cities">>,
       IF lang = "hi" THEN <<"vistrit report">> ELSE <<"Detailed report">>,
       IF lang = "hi" THEN <<"download data">> ELSE <<"Download data">> >>)

predictionResponse(lang, loc, t) ==
  Message(t,
    IF lang = "hi"
    THEN <<"agle 5 sal ke lie bhujal star ki bhavishyavani dikhai gai hai.">>
    ELSE <<"Here's the 5-year prediction for groundwater levels in ", "your area", ".">>,
    FALSE, TRUE, FALSE, TRUE,
    << IF lang = "hi" THEN <<"jokhim vishleshan">> ELSE <<"Risk analysis">>,
       IF lang = "hi" THEN <<"sujhav den">> ELSE <<"Get recommendations">>,
       IF lang = "hi" THEN <<"alert set karen">> ELSE <<"Set alerts">> >>)

levelResponse(lang, loc, t) ==
  Message(t,
    IF lang = "hi"
    THEN <<IF loc # <<>> THEN "apke kshetra" ELSE "is kshetra",
           " mein vartaman bhujal star samanya hai.">>
    ELSE <<"Current groundwater level in ",
           IF loc # <<>> THEN "your area" ELSE "this area",
           " is normal.">>,
    FALSE, TRUE, FALSE, FALSE,
    << IF lang = "hi" THEN <<"aitihasik data">> ELSE <<"Historical data">>,
       IF lang = "hi" THEN <<"masik trend">> ELSE <<"Monthly trends">>,
       IF lang = "hi" THEN <<"anya sthan dekhen">> ELSE <<"Check other locations">> >>)

defaultResponse(lang, loc, t) ==
  Message(t,
    IF lang = "hi"
    THEN <<"main apki madad karne ke lie yahan hun. kripya bhujal gunvatta, tulna ya bhavishyavani ke bare mein puchhen.">>
    ELSE <<"I'm here to help you with groundwater information. Please ask about water quality, comparisons, or predictions.">>,
    FALSE, FALSE, FALSE, FALSE,
    << IF lang = "hi" THEN <<"pani ki ", "gunvatta", " janchen">>
                      ELSE <<"Check water ", "quality">>,
       IF lang = "hi" THEN <<"shaharon ki ", "tulna">>
                      ELSE <<"Compare", " cities">>,
       IF lang = "hi" THEN <<"bhavishya ki report">>
                      ELSE <<"Future reports">> >>)

\* the cascade with its first two tests in the other order
generateResponse_CompareFirst(userText, lang, loc, t) ==
  LET lowerMessage == toLowerCase(userText) IN
  IF includes(lowerMessage, "compare") \/ includes(lowerMessage, "tulna")
  THEN comparisonResponse(lang, loc, t)
  ELSE IF includes(lowerMessage, "quality") \/ includes(lowerMessage, "gunvatta")
  THEN qualityResponse(lang, loc, t)
  ELSE IF includes(lowerMessage, "predict") \/ includes(lowerMessage, "bhavishyavani")
  THEN predictionResponse(lang, loc, t)
  ELSE IF includes(lowerMessage, "level") \/ includes(lowerMessage, "star")
  THEN levelResponse(lang, loc, t)
  ELSE defaultResponse(lang, loc, t)

\* a cascade that looks for the keywords of the active language only
generateResponse_TagKeywords(userText, lang, loc, t) ==
  LET lowerMessage == toLowerCase(userText) IN
  IF includes(lowerMessage, IF lang = "hi" THEN "gunvatta" ELSE "quality")
  THEN qualityResponse(lang, loc, t)
  ELSE IF includes(lowerMessage, IF lang = "hi" THEN "tulna" ELSE "compare")
  THEN comparisonResponse(lang, loc, t)
  ELSE IF includes(lowerMessage, IF lang = "hi" THEN "bhavishyavani" ELSE "predict")
  THEN predictionResponse(lang, loc, t)
  ELSE IF includes(lowerMessage, IF lang = "hi" THEN "star" ELSE "level")
  THEN levelResponse(lang, loc, t)
  ELSE defaultResponse(lang, loc, t)

generateResponse(userText, lang, loc, t) ==
  LET lowerMessage == toLowerCase(userText) IN
  IF includes(lowerMessage, "quality") \/ includes(lowerMessage, "gunvatta")
  THEN qualityResponse(lang, loc, t)
  ELSE IF includes(lowerMessage, "compare") \/ includes(lowerMessage, "tulna")
  THEN comparisonResponse(lang, loc, t)
  ELSE IF includes(lowerMessage, "predict") \/ includes(lowerMessage, "bhavishyavani")
  THEN predictionResponse(lang, loc, t)
  ELSE IF includes(lowerMessage, "level") \/ includes(lowerMessage, "star")
  THEN levelResponse(lang, loc, t)
  ELSE defaultResponse(lang, loc, t)

---------------------------------------------------------------------------
(* The platform and the objects it hands out *)

\* navigator.geolocation, window.SpeechRecognition, location.protocol/hostname:
\* one platform for each way the capability checks of the code can come out
Platforms ==
  { [geolocation |-> TRUE, speech |-> TRUE, protocol |-> "https:", hostname |-> "example.org"],
    [geolocation |-> FALSE, speech |-> TRUE, protocol |-> "http:", hostname |-> "localhost"],
    [geolocation |-> TRUE, speech |-> TRUE, protocol |-> "http:", hostname |-> "example.org"],
    [geolocation |-> TRUE, speech |-> FALSE, protocol |-> "https:", hostname |-> "example.org"],
    [geolocation |-> FALSE, speech |-> FALSE, protocol |-> "http:", hostname |-> "example.org"] }

\* position.coords of a successful fix
Positions == { [latitude |-> 28, longitude |-> 77] }

\* event.error of a SpeechRecognitionErrorEvent
ErrorKinds == {"not-allowed", "no-speech", "network"}

\* event.results[0][0].transcript
Transcripts == { <<"water ", "quality">> }

\* what the user can type into the Input
TypedAtoms == {" ", "hello"}

RECURSIVE TextsUpTo(_, _)
TextsUpTo(atoms, n) ==
  IF n = 0 THEN { <<>> }
  ELSE LET shorter == TextsUpTo(atoms, n - 1)
       IN  shorter \cup { Append(t, a) : t \in shorter, a \in atoms }

TypedTexts == TextsUpTo(TypedAtoms, MaxTyped)

\* a recognizer that is set to en-US whatever the language
NewRecognizer_English(lang) ==
  [lang |-> "en-US", continuous |-> FALSE, interimResults |-> FALSE,
   language |-> lang, phase |-> "idle"]

\* new SpeechRecognition() as the effect configures it; language is the one
\* its callbacks close over, phase is the state of its recognition session
NewRecognizer(lang) ==
  [lang |-> IF lang = "hi" THEN "hi-IN" ELSE "en-US",
   continuous |-> FALSE, interimResults |-> FALSE,
   language |-> lang, phase |-> "idle"]

Init ==
  /\ language = "en"
  /\ messages = <<>>
  /\ inputValue = <<>>
  /\ isListening = FALSE
  /\ isProcessing = FALSE
  /\ userLocation = <<>>
  /\ locationPermission = "pending"
  /\ recognitionRef = <<>>
  /\ renderedRef = FALSE
  /\ orphans = <<>>
  /\ geo = [state |-> "idle", language |-> "en"]
  /\ inflight = <<>>
  /\ now = 0
  /\ platform \in Platforms
  /\ mounted = FALSE
  /\ origin = <<>>
  /\ responded = <<>>

---------------------------------------------------------------------------
(* What the render shows *)

\* a render reads recognitionRef.current
Rerender == renderedRef' = (recognitionRef # <<>>)

\* <Input disabled={isListening || isProcessing}>
InputDisabled == isListening \/ isProcessing

\* voice <Button disabled={!recognitionRef.current || isListening || isProcessing}>
VoiceDisabled == ~renderedRef \/ isListening \/ isProcessing

\* a send Button that looks at the input field only
SendDisabled_InputOnly == ~Truthy(trim(inputValue))

\* send <Button disabled={!inputValue.trim() || isProcessing}>
SendDisabled == ~Truthy(trim(inputValue)) \/ isProcessing

\* the model's store bound: only the response a timer owes is appended to a
\* store that holds MaxMessages already
Room == Len(messages) < MaxMessages

AppendMessage(m, kind, turn) ==
  /\ messages' = Append(messages, m)
  /\ origin' = Append(origin, [kind |-> kind, turn |-> turn])

---------------------------------------------------------------------------
(* Mount: the effects of the first render, in the order they are declared *)

Mount ==
  /\ ~mounted
  /\ mounted' = TRUE
  /\ recognitionRef' = IF platform.speech THEN <<NewRecognizer(language)>> ELSE <<>>
  /\ IF ~platform.geolocation
     THEN /\ locationPermission' = "denied"
          /\ renderedRef' = platform.speech
          /\ UNCHANGED geo
     ELSE /\ geo' = [state |-> "requested", language |-> language]
          /\ UNCHANGED <<locationPermission, renderedRef>>
  /\ UNCHANGED <<language, messages, inputValue, isListening, isProcessing,
                 userLocation, orphans, inflight, now, platform, origin, responded>>

\* a success callback that records the grant and drops the position
GeoSuccess_GrantOnly(position) ==
  /\ geo.state = "requested"
  /\ geo' = [geo EXCEPT !.state = "done"]
  /\ locationPermission' = "granted"
  /\ messages' = <<welcomeMessage(geo.language, now)>>
  /\ origin' = <<[kind |-> "greeting", turn |-> 0]>>
  /\ Rerender
  /\ UNCHANGED <<language, inputValue, isListening, isProcessing, userLocation,
                 recognitionRef, orphans, inflight, now, platform, mounted,
                 responded>>

\* a success callback of a request that stays open (a watch, not one fix)
GeoSuccess_Repeating(position) ==
  /\ geo.state = "requested"
  /\ userLocation' = <<position>>
  /\ locationPermission' = "granted"
  /\ messages' = <<welcomeMessage(geo.language, now)>>
  /\ origin' = <<[kind |-> "greeting", turn |-> 0]>>
  /\ Rerender
  /\ UNCHANGED <<language, inputValue, isListening, isProcessing, recognitionRef,
                 orphans, geo, inflight, now, platform, mounted, responded>>

\* the success callback of getCurrentPosition
GeoSuccess(position) ==
  /\ geo.state = "requested"
  /\ geo' = [geo EXCEPT !.state = "done"]
  /\ userLocation' = <<position>>
  /\ locationPermission' = "granted"
  /\ messages' = <<welcomeMessage(geo.language, now)>>
  /\ origin' = <<[kind |-> "greeting", turn |-> 0]>>
  /\ Rerender
  /\ UNCHANGED <<language, inputValue, isListening, isProcessing, recognitionRef,
                 orphans, inflight, now, platform, mounted, responded>>

\* an error callback that sets the state and stores no Message
GeoError_Silent ==
  /\ geo.state = "requested"
  /\ geo' = [geo EXCEPT !.state = "done"]
  /\ locationPermission' = "denied"
  /\ Rerender
  /\ UNCHANGED <<language, messages, inputValue, isListening, isProcessing,
                 userLocation, recognitionRef, orphans, inflight, now, platform,
                 mounted, origin, responded>>

\* the error callback of getCurrentPosition
GeoError ==
  /\ geo.state = "requested"
  /\ geo' = [geo EXCEPT !.state = "done"]
  /\ locationPermission' = "denied"
  /\ messages' = <<errorMessage(geo.language, now)>>
  /\ origin' = <<[kind |-> "fallback", turn |-> 0]>>
  /\ Rerender
  /\ UNCHANGED <<language, inputValue, isListening, isProcessing, userLocation,
                 recognitionRef, orphans, inflight, now, platform, mounted,
                 responded>>

---------------------------------------------------------------------------
(* Typed input and submission *)

\* onChange={(e) => setInputValue(e.target.value)}
ChangeInput(text) ==
  /\ mounted
  /\ ~InputDisabled
  /\ inputValue' = text
  /\ Rerender
  /\ UNCHANGED <<language, messages, isListening, isProcessing, userLocation,
                 locationPermission, recognitionRef, orphans, geo, inflight, now,
                 platform, mounted, origin, responded>>

\* a chip that sends its text at once
handleSampleQuery_AutoSend(query) ==
  /\ Room
  /\ now + ResponseDelay <= MaxNow
  /\ AppendMessage(userMessage(query, now), "user", Len(responded) + 1)
  /\ inputValue' = <<>>
  /\ isProcessing' = TRUE
  /\ inflight' = Append(inflight,
       [text |-> query, language |-> language, userLocation |-> userLocation,
        due |-> now + ResponseDelay, turn |-> Len(responded) + 1])
  /\ responded' = Append(responded, 0)
  /\ Rerender
  /\ UNCHANGED <<language, isListening, userLocation, locationPermission,
                 recognitionRef, orphans, geo, now, platform, mounted>>

handleSampleQuery(query) ==
  /\ inputValue' = query
  /\ Rerender
  /\ UNCHANGED <<language, messages, isListening, isProcessing, userLocation,
                 locationPermission, recognitionRef, orphans, geo, inflight, now,
                 platform, mounted, origin, responded>>

\* a sample query of the welcome card, shown while the store is empty
ClickSampleQuery ==
  /\ mounted
  /\ messages = <<>>
  /\ \E k \in DOMAIN sampleQueries(language) \cap 1..MaxChip :
       handleSampleQuery(sampleQueries(language)[k])

\* a suggestion chip of a stored assistant Message
ClickChip ==
  /\ mounted
  /\ \E i \in DOMAIN messages :
       /\ ~messages[i].isUser
       /\ \E j \in DOMAIN messages[i].suggestions \cap 1..MaxChip :
            handleSampleQuery(messages[i].suggestions[j])

\* a handleSendMessage that leaves the sent text in the input field
handleSendMessage_KeepsInput ==
  IF ~Truthy(trim(inputValue))
  THEN UNCHANGED vars
  ELSE /\ Room
       /\ now + ResponseDelay <= MaxNow
       /\ AppendMessage(userMessage(inputValue, now), "user", Len(responded) + 1)
       /\ isProcessing' = TRUE
       /\ inflight' = Append(inflight,
            [text |-> inputValue, language |-> language,
             userLocation |-> userLocation, due |-> now + ResponseDelay,
             turn |-> Len(responded) + 1])
       /\ responded' = Append(responded, 0)
       /\ Rerender
       /\ UNCHANGED <<language, inputValue, isListening, userLocation,
                      locationPermission, recognitionRef, orphans, geo, now,
                      platform, mounted>>

\* a handleSendMessage that tests the input field without trimming it
handleSendMessage_NoTrim ==
  IF ~Truthy(inputValue)
  THEN UNCHANGED vars
  ELSE /\ Room
       /\ now + ResponseDelay <= MaxNow
       /\ AppendMessage(userMessage(inputValue, now), "user", Len(responded) + 1)
       /\ inputValue' = <<>>
       /\ isProcessing' = TRUE
       /\ inflight' = Append(inflight,
            [text |-> inputValue, language |-> language,
             userLocation |-> userLocation, due |-> now + ResponseDelay,
             turn |-> Len(responded) + 1])
       /\ responded' = Append(responded, 0)
       /\ Rerender
       /\ UNCHANGED <<language, isListening, userLocation, locationPermission,
                      recognitionRef, orphans, geo, now, platform, mounted>>

\* handleSendMessage up to its await: the call of generateResponse is left
\* in its timer with the text, language and userLocation of this render
handleSendMessage ==
  IF ~Truthy(trim(inputValue))
  THEN UNCHANGED vars
  ELSE /\ Room
       /\ now + ResponseDelay <= MaxNow
       /\ AppendMessage(userMessage(inputValue, now), "user", Len(responded) + 1)
       /\ inputValue' = <<>>
       /\ isProcessing' = TRUE
       /\ inflight' = Append(inflight,
            [text |-> inputValue, language |-> language,
             userLocation |-> userLocation, due |-> now + ResponseDelay,
             turn |-> Len(responded) + 1])
       /\ responded' = Append(responded, 0)
       /\ Rerender
       /\ UNCHANGED <<language, isListening, userLocation, locationPermission,
                      recognitionRef, orphans, geo, now, platform, mounted>>

\* a click on the send Button: a disabled Button delivers no click
ClickSend ==
  /\ mounted
  /\ IF SendDisabled THEN UNCHANGED vars ELSE handleSendMessage

\* handleKeyPress, Enter without shift: a disabled Input delivers no key
PressEnter ==
  /\ mounted
  /\ IF InputDisabled THEN UNCHANGED vars ELSE handleSendMessage

\* a continuation that answers the text it finds in the input field
ResponseArrives_ReadsField ==
  /\ inflight # <<>>
  /\ Head(inflight).due <= now
  /\ LET call == Head(inflight) IN
       /\ AppendMessage(
            generateResponse(inputValue, call.language, call.userLocation, now),
            "response", call.turn)
       /\ responded' = [responded EXCEPT ![call.turn] = @ + 1]
  /\ isProcessing' = FALSE
  /\ inflight' = Tail(inflight)
  /\ Rerender
  /\ UNCHANGED <<language, inputValue, isListening, userLocation,
                 locationPermission, recognitionRef, orphans, geo, now, platform,
                 mounted>>

\* a continuation that leaves processing and forgets to append the response
ResponseArrives_Dropped ==
  /\ inflight # <<>>
  /\ Head(inflight).due <= now
  /\ isProcessing' = FALSE
  /\ inflight' = Tail(inflight)
  /\ Rerender
  /\ UNCHANGED <<language, messages, inputValue, isListening, userLocation,
                 locationPermission, recognitionRef, orphans, geo, now, platform,
                 mounted, origin, responded>>

\* handleSendMessage after its await: the timer of the oldest call has run out
ResponseArrives ==
  /\ inflight # <<>>
  /\ Head(inflight).due <= now
  /\ LET call == Head(inflight) IN
       /\ AppendMessage(
            generateResponse(call.text, call.language, call.userLocation, now),
            "response", call.turn)
       /\ responded' = [responded EXCEPT ![call.turn] = @ + 1]
  /\ isProcessing' = FALSE
  /\ inflight' = Tail(inflight)
  /\ Rerender
  /\ UNCHANGED <<language, inputValue, isListening, userLocation,
                 locationPermission, recognitionRef, orphans, geo, now, platform,
                 mounted>>

\* the clock: a millisecond passes, or a whole response delay
Tick(d) ==
  /\ now + d <= MaxNow
  /\ d = 1 => (now % ResponseDelay) < MaxJitter
  /\ now' = now + d
  /\ UNCHANGED <<language, messages, inputValue, isListening, isProcessing,
                 userLocation, locationPermission, recognitionRef, renderedRef,
                 orphans, geo, inflight, platform, mounted, origin, responded>>

---------------------------------------------------------------------------
(* Speech recognition.  A session of a recognizer runs through the phases  *)
(* idle -> starting (start() called) -> started (onstart delivered) ->     *)
(* finishing (onresult or onerror delivered) -> idle (onend delivered).    *)
(* Session 0 is the recognizer recognitionRef holds, session k > 0 is      *)
(* orphans[k].                                                             *)

Sessions == (IF recognitionRef # <<>> THEN {0} ELSE {}) \cup DOMAIN orphans

Rec(k) == IF k = 0 THEN recognitionRef[1] ELSE orphans[k]

RemoveAt(seq, k) == SubSeq(seq, 1, k - 1) \o SubSeq(seq, k + 1, Len(seq))

SetPhase(k, phase) ==
  IF k = 0
  THEN /\ recognitionRef' = <<[recognitionRef[1] EXCEPT !.phase = phase]>>
       /\ UNCHANGED orphans
  ELSE /\ orphans' = IF phase = "idle" THEN RemoveAt(orphans, k)
                     ELSE [orphans EXCEPT ![k].phase = phase]
       /\ UNCHANGED recognitionRef

\* location.protocol !== 'https:' && location.hostname !== 'localhost'
InsecureOrigin == platform.protocol # "https:" /\ platform.hostname # "localhost"

\* the three Messages startListening can append
StartFailure(text, listening) ==
  /\ Room
  /\ AppendMessage(errorMsg(text, now), "start", 0)
  /\ isListening' = listening
  /\ Rerender
  /\ UNCHANGED <<language, inputValue, isProcessing, userLocation,
                 locationPermission, recognitionRef, orphans, geo, inflight, now,
                 platform, mounted, responded>>

\* a startListening that looks at the transport before the capability
startListening_TransportFirst ==
  IF InsecureOrigin
  THEN StartFailure(httpsRequiredText(language), isListening)
  ELSE IF recognitionRef = <<>>
  THEN StartFailure(notAvailableText(language), isListening)
  ELSE IF recognitionRef[1].phase = "idle"
  THEN /\ SetPhase(0, "starting")
       /\ UNCHANGED <<language, messages, inputValue, isListening, isProcessing,
                      userLocation, locationPermission, renderedRef, geo,
                      inflight, now, platform, mounted, origin, responded>>
  ELSE StartFailure(couldNotStartText(language), FALSE)

\* start() throws InvalidStateError when the recognizer's session is live
startListening ==
  IF recognitionRef = <<>>
  THEN StartFailure(notAvailableText(language), isListening)
  ELSE IF InsecureOrigin
  THEN StartFailure(httpsRequiredText(language), isListening)
  ELSE IF recognitionRef[1].phase = "idle"
  THEN /\ SetPhase(0, "starting")
       /\ UNCHANGED <<language, messages, inputValue, isListening, isProcessing,
                      userLocation, locationPermission, renderedRef, geo,
                      inflight, now, platform, mounted, origin, responded>>
  ELSE StartFailure(couldNotStartText(language), FALSE)

\* a click on the voice Button: a disabled Button delivers no click
ClickVoice ==
  /\ mounted
  /\ IF VoiceDisabled THEN UNCHANGED vars ELSE startListening

\* recognitionRef.current.onstart
OnStart(k) ==
  /\ k \in Sessions
  /\ Rec(k).phase = "starting"
  /\ SetPhase(k, "started")
  /\ isListening' = TRUE
  /\ Rerender
  /\ UNCHANGED <<language, messages, inputValue, isProcessing, userLocation,
                 locationPermission, geo, inflight, now, platform, mounted,
                 origin, responded>>

\* an onresult that adds the transcript to what the field holds
OnResult_Appending(k, transcript) ==
  /\ k \in Sessions
  /\ Rec(k).phase = "started"
  /\ SetPhase(k, "finishing")
  /\ inputValue' = inputValue \o transcript
  /\ isListening' = FALSE
  /\ Rerender
  /\ UNCHANGED <<language, messages, isProcessing, userLocation,
                 locationPermission, geo, inflight, now, platform, mounted,
                 origin, responded>>

\* recognitionRef.current.onresult
OnResult(k, transcript) ==
  /\ k \in Sessions
  /\ Rec(k).phase = "started"
  /\ SetPhase(k, "finishing")
  /\ inputValue' = transcript
  /\ isListening' = FALSE
  /\ Rerender
  /\ UNCHANGED <<language, messages, isProcessing, userLocation,
                 locationPermission, geo, inflight, now, platform, mounted,
                 origin, responded>>

\* recognitionRef.current.onerror
OnError(k, error) ==
  /\ k \in Sessions
  /\ Rec(k).phase \in {"starting", "started"}
  /\ Room
  /\ SetPhase(k, "finishing")
  /\ isListening' = FALSE
  /\ AppendMessage(errorMsg(speechErrorText(Rec(k).language, error), now), "speech", 0)
  /\ Rerender
  /\ UNCHANGED <<language, inputValue, isProcessing, userLocation,
                 locationPermission, geo, inflight, now, platform, mounted,
                 responded>>

\* recognitionRef.current.onend
\* an onend that leaves the listening flag to onresult and onerror
OnEnd_KeepsListening(k) ==
  /\ k \in Sessions
  /\ Rec(k).phase \in {"started", "finishing"}
  /\ SetPhase(k, "idle")
  /\ Rerender
  /\ UNCHANGED <<language, messages, inputValue, isListening, isProcessing,
                 userLocation, locationPermission, geo, inflight, now, platform,
                 mounted, origin, responded>>

OnEnd(k) ==
  /\ k \in Sessions
  /\ Rec(k).phase \in {"started", "finishing"}
  /\ SetPhase(k, "idle")
  /\ isListening' = FALSE
  /\ Rerender
  /\ UNCHANGED <<language, messages, inputValue, isProcessing, userLocation,
                 locationPermission, geo, inflight, now, platform, mounted,
                 origin, responded>>

---------------------------------------------------------------------------
(* The language Button of the header: Index sets its state, the component  *)
(* renders again and the effect on [language] makes a new recognizer.  The *)
(* effect has no cleanup: a live session of the old recognizer goes on.    *)

\* a language change that mounts the component anew, with an empty store
ToggleLanguage_Reset ==
  /\ mounted
  /\ language' = IF language = "en" THEN "hi" ELSE "en"
  /\ IF platform.speech
     THEN /\ recognitionRef' = <<NewRecognizer(language')>>
          /\ IF recognitionRef[1].phase # "idle"
             THEN /\ Len(orphans) < MaxOrphans
                  /\ orphans' = Append(orphans, recognitionRef[1])
             ELSE UNCHANGED orphans
     ELSE UNCHANGED <<recognitionRef, orphans>>
  /\ messages' = <<>>
  /\ origin' = <<>>
  /\ Rerender
  /\ UNCHANGED <<inputValue, isListening, isProcessing, userLocation,
                 locationPermission, geo, inflight, now, platform, mounted,
                 responded>>

ToggleLanguage ==
  /\ mounted
  /\ language' = IF language = "en" THEN "hi" ELSE "en"
  /\ IF platform.speech
     THEN /\ recognitionRef' = <<NewRecognizer(language')>>
          /\ IF recognitionRef[1].phase # "idle"
             THEN /\ Len(orphans) < MaxOrphans
                  /\ orphans' = Append(orphans, recognitionRef[1])
             ELSE UNCHANGED orphans
     ELSE UNCHANGED <<recognitionRef, orphans>>
  /\ Rerender
  /\ UNCHANGED <<messages, inputValue, isListening, isProcessing, userLocation,
                 locationPermission, geo, inflight, now, platform, mounted,
                 origin, responded>>

---------------------------------------------------------------------------

Next ==
  \/ Mount
  \/ \E position \in Positions : GeoSuccess(position)
  \/ GeoError
  \/ \E text \in TypedTexts : ChangeInput(text)
  \/ ClickSampleQuery
  \/ ClickChip
  \/ ClickSend
  \/ PressEnter
  \/ ResponseArrives
  \/ ClickVoice
  \/ \E k \in Sessions : OnStart(k)
  \/ \E k \in Sessions, transcript \in Transcripts : OnResult(k, transcript)
  \/ \E k \in Sessions, error \in ErrorKinds : OnError(k, error)
  \/ \E k \in Sessions : OnEnd(k)
  \/ ToggleLanguage
  \/ \E d \in {1, ResponseDelay} : Tick(d)

Spec == Init /\ [][Next]_vars

---------------------------------------------------------------------------
(* generateResponse over every short text: the component after a resolved  *)
(* geolocation request, with a text in the input field that is then sent   *)

GenAtoms ==
  {"hello", "quality", "QUALITY", "gunvatta", "compare", "Compare", "tulna",
   "predict", "bhavishyavani", "level", "LEVEL", "star"}

GenTexts == TextsUpTo(GenAtoms, MaxGenLen)

InitGen ==
  /\ language \in Languages
  /\ inputValue \in GenTexts
  /\ isListening = FALSE
  /\ isProcessing = FALSE
  /\ platform = [geolocation |-> TRUE, speech |-> FALSE, protocol |-> "https:",
                 hostname |-> "example.org"]
  /\ recognitionRef = <<>>
  /\ renderedRef = FALSE
  /\ orphans = <<>>
  /\ geo = [state |-> "done", language |-> "en"]
  /\ \/ /\ userLocation \in { <<p>> : p \in Positions }
        /\ locationPermission = "granted"
        /\ messages = <<welcomeMessage("en", 0)>>
        /\ origin = <<[kind |-> "greeting", turn |-> 0]>>
     \/ /\ userLocation = <<>>
        /\ locationPermission = "denied"
        /\ messages = <<errorMessage("en", 0)>>
        /\ origin = <<[kind |-> "fallback", turn |-> 0]>>
  /\ inflight = <<>>
  /\ now = 0
  /\ mounted = TRUE
  /\ responded = <<>>

NextGen ==
  \/ ClickSend
  \/ ResponseArrives
  \/ \E d \in {1, ResponseDelay} : Tick(d)

SpecGen == InitGen /\ [][NextGen]_vars

\* startListening as a function: called in any state of the mounted
\* component, whatever the voice Button shows
CallStartListening == mounted /\ startListening

NextCall == Next \/ CallStartListening

SpecCall == Init /\ [][NextCall]_vars

\* the timer of a pending response runs out and its continuation is run
FairSpec ==
  Spec /\ WF_vars(Tick(ResponseDelay)) /\ WF_vars(ResponseArrives)

\* the mount effects run, and getCurrentPosition calls one of its callbacks
GeoAnswer == GeoError \/ \E position \in Positions : GeoSuccess(position)

GeoFairSpec == Spec /\ WF_vars(Mount) /\ WF_vars(GeoAnswer)

\* the recognizer ends every session it has started with onend
SessionEnds == \E k \in Sessions : OnEnd(k)

\* the mount effects run, the response delay elapses and its continuation
\* runs, and the recognizer delivers onend
RecoverSpec ==
  /\ Spec
  /\ WF_vars(Mount)
  /\ WF_vars(Tick(ResponseDelay))
  /\ WF_vars(ResponseArrives)
  /\ WF_vars(SessionEnds)

---------------------------------------------------------------------------
(* Properties *)

IsPrefix(s, t) == Len(s) <= Len(t) /\ SubSeq(t, 1, Len(s)) = s

\* the submits a behaviour can hold: each takes a response delay of the clock
Turns == 1..NumPeriods

\* a step of the send Button or the Enter key that the code accepts
AcceptedSubmit ==
  /\ ClickSend \/ PressEnter
  /\ Truthy(trim(inputValue))
  /\ ~isProcessing
  /\ vars' # vars

\* C1: every accepted submit (input not blank, no response pending) appends
\* exactly one user Message, and exactly one response Message is appended for
\* it later, never none and never two, whatever else happens in the delay.
C1_SubmitAnsweredOnce ==
  /\ [][AcceptedSubmit =>
          /\ messages' = Append(messages, userMessage(inputValue, now))
          /\ responded' = Append(responded, 0)]_vars
  /\ [](\A k \in DOMAIN responded : responded[k] <= 1)
  /\ \A k \in Turns :
       (Len(responded) >= k) ~> (Len(responded) >= k /\ responded[k] = 1)

\* a submit was answered although the geolocation callback, a speech error
\* or a language change came in between
C1_Witness ==
  /\ responded = <<1>>
  /\ \E i \in DOMAIN origin :
       /\ origin[i].kind = "response"
       /\ \/ \E j \in 1..(i - 1) : origin[j].kind \in {"greeting", "fallback", "speech"}
          \/ \E j \in 1..(i - 1) :
               origin[j].kind = "user"
               /\ messages[i].text # generateResponse(messages[j].text,
                    language, userLocation, messages[i].id).text

\* C2: the store only grows at its end: in every step the store before is a
\* prefix of the store after.
C2_AppendOnly == [][IsPrefix(messages, messages')]_vars

\* C3: a stored response has the user Message of its submit stored before it.
C3_UserBeforeResponse ==
  \A i \in DOMAIN origin :
    origin[i].kind = "response" =>
      \E j \in 1..(i - 1) :
        origin[j].kind = "user" /\ origin[j].turn = origin[i].turn

\* C4: a submit tried while a response is pending changes nothing (store,
\* input field, processing flag, calls in flight), and at most one call of
\* generateResponse is ever in flight.
C4_PendingSubmitNoOp ==
  /\ [][(isProcessing /\ (ClickSend \/ PressEnter)) =>
          UNCHANGED <<messages, inputValue, isProcessing, inflight>>]_vars
  /\ [](Len(inflight) <= 1)
  /\ [](isProcessing <=> inflight # <<>>)

\* a response is pending and the input field holds text a submit would take
C4_Witness ==
  /\ isProcessing
  /\ Truthy(trim(inputValue))
  /\ Len(inflight) = 1

---------------------------------------------------------------------------
(* Intents, as the specification words them *)

Intents == <<"quality", "comparison", "prediction", "level">>

\* the spellings of an intent's keywords, English in any letter case and Hindi
Spellings(intent) ==
  CASE intent = "quality" -> {"quality", "Quality", "QUALITY", "gunvatta"}
    [] intent = "comparison" -> {"compare", "Compare", "COMPARE", "tulna"}
    [] intent = "prediction" -> {"predict", "Predict", "PREDICT", "bhavishyavani"}
    [] intent = "level" -> {"level", "Level", "LEVEL", "star"}

HasKeyword(text, intent) == \E i \in DOMAIN text : text[i] \in Spellings(intent)

\* the earliest keyword class present, in the fixed order
FirstIntent(text) ==
  IF \E n \in DOMAIN Intents : HasKeyword(text, Intents[n])
  THEN Intents[CHOOSE n \in DOMAIN Intents :
                 /\ HasKeyword(text, Intents[n])
                 /\ \A m \in 1..(n - 1) : ~HasKeyword(text, Intents[m])]
  ELSE "default"

\* the intent a response Message was written for, read off its body and chips
ResponseOf(intent, lang, loc, t) ==
  CASE intent = "quality" -> qualityResponse(lang, loc, t)
    [] intent = "comparison" -> comparisonResponse(lang, loc, t)
    [] intent = "prediction" -> predictionResponse(lang, loc, t)
    [] intent = "level" -> levelResponse(lang, loc, t)
    [] OTHER -> defaultResponse(lang, loc, t)

Locations == { <<>> } \cup { <<p>> : p \in Positions }

BodyIntents(m) ==
  { intent \in {"quality", "comparison", "prediction", "level", "default"} :
      \E lang \in Languages, loc \in Locations :
        /\ m.text = ResponseOf(intent, lang, loc, m.id).text
        /\ m.suggestions = ResponseOf(intent, lang, loc, m.id).suggestions }

\* the stored pairs (i, j): messages[i] is the response to the user Message
\* messages[j]
Answers ==
  { <<i, j>> \in (DOMAIN origin) \X (DOMAIN origin) :
      /\ origin[i].kind = "response"
      /\ origin[j].kind = "user"
      /\ origin[i].turn = origin[j].turn }

\* C5: the response is that of the earliest keyword class the submitted text
\* holds, in the order quality, comparison, prediction, level, else default.
C5_FirstMatchWins ==
  \A a \in Answers :
    BodyIntents(messages[a[1]]) = { FirstIntent(messages[a[2]].text) }

\* answered: a text with a quality and a comparison keyword, and a text with
\* a level keyword after a prediction keyword, one of them Hindi or capitals
C5_Witness ==
  \E a \in Answers :
    LET text == messages[a[2]].text IN
      /\ Len(text) >= 2
      /\ HasKeyword(text, "level")
      /\ HasKeyword(text, "comparison") \/ HasKeyword(text, "prediction")
      /\ text[1] \in {"star", "LEVEL"}
      /\ BodyIntents(messages[a[1]]) \subseteq {"comparison", "prediction"}

\* the display flags the specification gives an intent
FlagsOf(intent) ==
  [showChart |-> intent \in {"quality", "prediction", "level"},
   showComparison |-> intent = "comparison",
   isPrediction |-> intent = "prediction"]

\* C6: a response carries the flags of its intent and no other, never both
\* the chart and the comparison flag, and three suggestion chips.
C6_FlagsAndChips ==
  \A a \in Answers :
    LET m == messages[a[1]]
        intent == FirstIntent(messages[a[2]].text)
    IN  /\ m.showChart = FlagsOf(intent).showChart
        /\ m.showComparison = FlagsOf(intent).showComparison
        /\ m.isPrediction = FlagsOf(intent).isPrediction
        /\ ~(m.showChart /\ m.showComparison)
        /\ ~m.isUser
        /\ Len(m.suggestions) = 3
        /\ Cardinality({ m.suggestions[n] : n \in 1..3 }) = 3

\* a Hindi prediction response is stored
C6_Witness ==
  \E a \in Answers :
    /\ FirstIntent(messages[a[2]].text) = "prediction"
    /\ messages[a[1]].isPrediction
    /\ messages[a[1]].text = predictionResponse("hi", <<>>, 0).text

---------------------------------------------------------------------------
(* Geolocation *)

IsGreeting(m) == \E lang \in Languages : m = welcomeMessage(lang, m.id)

IsFallback(m) == \E lang \in Languages : m = errorMessage(lang, m.id)

Greetings == { i \in DOMAIN messages : IsGreeting(messages[i]) }

Fallbacks == { i \in DOMAIN messages : IsFallback(messages[i]) }

ChipSet(m) == { m.suggestions[n] : n \in DOMAIN m.suggestions }

\* C7: once the request has resolved the store holds one geolocation
\* Message: a greeting with three chips after success, a fallback with three
\* other chips after denial; never both, never two of one.
C7_OneGeolocationMessage ==
  /\ Cardinality(Greetings) + Cardinality(Fallbacks) <= 1
  /\ geo.state = "done" =>
       /\ Cardinality(Greetings) + Cardinality(Fallbacks) = 1
       /\ locationPermission = "granted" =>
            \E i \in Greetings : Cardinality(ChipSet(messages[i])) = 3
       /\ locationPermission = "denied" =>
            \E i \in Fallbacks :
              /\ Cardinality(ChipSet(messages[i])) = 3
              /\ \A lang \in Languages :
                   ChipSet(messages[i]) \cap ChipSet(welcomeMessage(lang, 0)) = {}
       /\ locationPermission # "pending"

\* the request was denied and a turn and its response followed the fallback
C7_Witness ==
  /\ geo.state = "done"
  /\ locationPermission = "denied"
  /\ Len(messages) >= 3
  /\ Fallbacks = {1}

\* C8: without a geolocation capability the mount ends as a failure does:
\* PermissionState denied and one fallback Message with three chips stored.
C8_NoCapabilityIsFailure ==
  (mounted /\ ~platform.geolocation) =>
    /\ locationPermission = "denied"
    /\ \E i \in Fallbacks : Cardinality(ChipSet(messages[i])) = 3

---------------------------------------------------------------------------
(* Speech errors *)

PermissionGuidance == { <<"Please allow microphone access">>, <<"maikrofon ki anumati den">> }

NothingHeard == { <<"No speech detected">>, <<"koi avaz nahin suni gai">> }

GenericFailure == { <<"Voice recognition error">>, <<"voice recognition mein samasya">> }

\* C10: onerror leaves listening false and appends one assistant Message
\* whose text goes by the error kind; input field and processing flag stay.
C10_OnErrorReports ==
  [][\A k \in Sessions, error \in ErrorKinds :
       OnError(k, error) =>
         /\ ~isListening'
         /\ Len(messages') = Len(messages) + 1
         /\ IsPrefix(messages, messages')
         /\ ~messages'[Len(messages')].isUser
         /\ messages'[Len(messages')].text \in
              (CASE error = "not-allowed" -> PermissionGuidance
                 [] error = "no-speech" -> NothingHeard
                 [] OTHER -> GenericFailure)
         /\ UNCHANGED <<inputValue, isProcessing>>]_vars

\* a no-speech error was reported while a response was pending
C10_Witness ==
  /\ isProcessing
  /\ ~isListening
  /\ origin # <<>>
  /\ origin[Len(origin)].kind = "speech"
  /\ messages[Len(messages)].text \in NothingHeard

---------------------------------------------------------------------------
(* startListening *)

\* a step that runs startListening: a call, or a click the Button delivers
StartCall == CallStartListening \/ (ClickVoice /\ ~VoiceDisabled)

NotAvailable ==
  { <<"Voice recognition not available">>, <<"voice recognition uplabdh nahin hai">> }

SecureRequired ==
  { <<"HTTPS connection required for voice">>, <<"HTTPS connection ki avashyakta">> }

\* the phases of every recognizer, the one in use and the replaced ones
Phases ==
  <<[k \in DOMAIN recognitionRef |-> recognitionRef[k].phase],
    [k \in DOMAIN orphans |-> orphans[k].phase]>>

\* C11: startListening without the speech capability, or on a page that is
\* neither https nor localhost, appends one assistant Message ("not available",
\* else "secure connection required") and returns: no session is started,
\* listening, processing and the input field stay; the capability is looked
\* at before the transport.
C11_StartRefused ==
  [][(StartCall /\ (~platform.speech \/ InsecureOrigin)) =>
       /\ Len(messages') = Len(messages) + 1
       /\ IsPrefix(messages, messages')
       /\ ~messages'[Len(messages')].isUser
       /\ messages'[Len(messages')].text \in
            (IF ~platform.speech THEN NotAvailable ELSE SecureRequired)
       /\ Phases' = Phases
       /\ UNCHANGED <<isListening, isProcessing, inputValue, inflight>>]_vars

\* without the capability and on an insecure page, "not available" was said
C11_Witness ==
  /\ ~platform.speech
  /\ InsecureOrigin
  /\ origin # <<>>
  /\ origin[Len(origin)].kind = "start"
  /\ messages[Len(messages)].text \in NotAvailable

CouldNotStart ==
  { <<"Could not start voice recognition">>, <<"voice recognition shuru nahin ho saka">> }

\* start() throws: the session of the recognizer in use is live
StartThrows ==
  /\ recognitionRef # <<>>
  /\ ~InsecureOrigin
  /\ recognitionRef[1].phase # "idle"

\* C12: an exception of start() is caught in startListening: listening is set
\* to false and one generic failure Message is appended; the session that is
\* live, the input field and the processing flag are as before, and the
\* component stays mounted.
C12_StartExceptionCaught ==
  [][(StartCall /\ StartThrows) =>
       /\ ~isListening'
       /\ Len(messages') = Len(messages) + 1
       /\ IsPrefix(messages, messages')
       /\ ~messages'[Len(messages')].isUser
       /\ messages'[Len(messages')].text \in CouldNotStart
       /\ Phases' = Phases
       /\ mounted'
       /\ UNCHANGED <<inputValue, isProcessing, inflight>>]_vars

\* the failure Message of a second click, stored while the first click's
\* session is still live
C12_Witness ==
  /\ StartThrows
  /\ origin # <<>>
  /\ origin[Len(origin)].kind = "start"
  /\ messages[Len(messages)].text \in CouldNotStart

\* a recognition session is active: start() was called on some recognizer and
\* its onend has not been delivered
SessionActive == \E k \in Sessions : Rec(k).phase # "idle"

\* C13: while a recognition session is active, from the call of start() to
\* onend, and while a response is pending, the voice Button is disabled, so
\* that no click can start a session then.
C13_VoiceDisabledWhileBusy ==
  (mounted /\ (SessionActive \/ isProcessing)) => VoiceDisabled

---------------------------------------------------------------------------
(* The language tag *)

\* C14: a change of the language tag leaves the store as it was, Message by
\* Message (text, flags, chips), and leaves the input field, the listening
\* and processing flags, PermissionState and LocationData.
C14_ToggleKeepsStore ==
  [][ToggleLanguage =>
       UNCHANGED <<messages, inputValue, isListening, isProcessing,
                   locationPermission, userLocation>>]_vars

\* the tag is en again while the store still holds the Hindi Message of a
\* speech error, reported by the recognizer made for hi
C14_Witness ==
  /\ language = "en"
  /\ \E i \in DOMAIN origin :
       /\ origin[i].kind = "speech"
       /\ messages[i].text = speechErrorText("hi", "no-speech")

\* the assistant Messages the code writes in a language
InLanguage(m, lang) ==
  \/ m = welcomeMessage(lang, m.id)
  \/ m = errorMessage(lang, m.id)
  \/ \E intent \in {"quality", "comparison", "prediction", "level", "default"},
        loc \in Locations : m = ResponseOf(intent, lang, loc, m.id)
  \/ \E error \in ErrorKinds : m = errorMsg(speechErrorText(lang, error), m.id)
  \/ m = errorMsg(notAvailableText(lang), m.id)
  \/ m = errorMsg(httpsRequiredText(lang), m.id)
  \/ m = errorMsg(couldNotStartText(lang), m.id)

\* a step that stores a new assistant Message at the end of the store
StoresAssistantMessage ==
  /\ messages' # messages
  /\ messages' # <<>>
  /\ ~messages'[Len(messages')].isUser

\* C15: an assistant Message (response, speech error, geolocation greeting
\* or fallback) is stored in the language that is the active tag at the
\* moment it is stored, text and chips.
C15_StoredInActiveLanguage ==
  [][StoresAssistantMessage =>
       InLanguage(messages'[Len(messages')], language')]_vars

---------------------------------------------------------------------------
(* Chips *)

\* the texts of the chips and sample queries on display
ChipsShown ==
  UNION { ChipSet(messages[i]) : i \in { j \in DOMAIN messages : ~messages[j].isUser } }
  \cup (IF messages = <<>>
        THEN { sampleQueries(language)[k] : k \in DOMAIN sampleQueries(language) }
        ELSE {})

\* C16: a click on a suggestion chip or a sample query puts the chip's text
\* into the input field and does nothing else: store, processing and
\* listening flags stay and no call of generateResponse is started.
C16_ChipOnlyPrefills ==
  [][(ClickChip \/ ClickSampleQuery) =>
       /\ inputValue' \in ChipsShown
       /\ UNCHANGED <<messages, isProcessing, isListening, inflight>>]_vars

\* a chip's text stands in the input field unsent, put there while a
\* response is pending
C16_Witness ==
  /\ isProcessing
  /\ Len(inflight) = 1
  /\ inputValue \in ChipsShown

---------------------------------------------------------------------------
(* Message ids *)

\* C17: any two Messages of the store have different ids.
C17_UniqueIds ==
  \A i, j \in DOMAIN messages : i # j => messages[i].id # messages[j].id

---------------------------------------------------------------------------
(* Blank input *)

Blank(text) == ~Truthy(trim(text))

\* C18: a submit of an input field that is empty or white space only does
\* nothing: no Message is appended, processing stays false, no call of
\* generateResponse is started and the field keeps its content; so no blank
\* text is ever stored or sent.
C18_BlankSubmitNoOp ==
  /\ [][((ClickSend \/ PressEnter) /\ Blank(inputValue)) =>
          UNCHANGED <<messages, isProcessing, inflight, inputValue>>]_vars
  /\ [](\A i \in DOMAIN messages : messages[i].isUser => ~Blank(messages[i].text))
  /\ [](\A n \in DOMAIN inflight : ~Blank(inflight[n].text))

\* white space stands in the enabled input field, after an earlier turn
C18_Witness ==
  /\ mounted
  /\ inputValue = <<" ">>
  /\ ~InputDisabled
  /\ \E i \in DOMAIN messages : messages[i].isUser

---------------------------------------------------------------------------
(* Recovery *)

\* typed input is taken: the Input is enabled, and the send Button is as
\* soon as the field holds text that is not blank
TypedSubmitAccepted == mounted /\ ~isListening /\ ~isProcessing

\* C19: no failure ends the session: from every reachable state, if the
\* response delay elapses and the recognizer delivers onend, a state follows
\* with listening and processing false, where a typed text can be sent.
C19_AlwaysRecovers == []<>TypedSubmitAccepted

\* typed input is taken again after a refused geolocation request and a
\* speech error whose session has ended
C19_Witness ==
  /\ TypedSubmitAccepted
  /\ locationPermission = "denied"
  /\ ~SessionActive
  /\ \E i \in DOMAIN origin : origin[i].kind = "speech"

---------------------------------------------------------------------------
(* The recognizer's configuration *)

Locale(lang) == IF lang = "hi" THEN "hi-IN" ELSE "en-US"

\* a step in which start() opens a session of the recognizer in use
SessionStarted ==
  /\ recognitionRef # <<>>
  /\ recognitionRef' # <<>>
  /\ recognitionRef[1].phase = "idle"
  /\ recognitionRef'[1].phase = "starting"

\* C20: the recognizer a session is started on is single-shot, gives no
\* interim results and has the locale of the language tag active then:
\* hi-IN for hi, en-US for en, also after language changes.
C20_StartedInActiveLocale ==
  [][SessionStarted =>
       /\ recognitionRef'[1].continuous = FALSE
       /\ recognitionRef'[1].interimResults = FALSE
       /\ recognitionRef'[1].lang = Locale(language)]_vars

\* a session was started in hi-IN after the tag was changed to hi
C20_Witness ==
  /\ language = "hi"
  /\ recognitionRef # <<>>
  /\ recognitionRef[1].phase = "starting"
  /\ recognitionRef[1].lang = "hi-IN"

---------------------------------------------------------------------------
(* The turn *)

\* a step that stores the response of a pending call
ResponseStored ==
  /\ Len(messages') = Len(messages) + 1
  /\ IsPrefix(messages, messages')
  /\ Len(inflight') = Len(inflight) - 1
  /\ Len(responded') = Len(responded)
  /\ responded' # responded

\* C21: an accepted submit appends the user Message with the input field's
\* text as it stands, clears the field and sets processing, in one step;
\* processing is true exactly while a call of generateResponse is in flight
\* and turns false in the step that stores the response, in no other.
C21_TurnSteps ==
  /\ [][AcceptedSubmit =>
          /\ messages' = Append(messages, userMessage(inputValue, now))
          /\ messages'[Len(messages')].text = inputValue
          /\ inputValue' = <<>>
          /\ ~isProcessing /\ isProcessing'
          /\ Len(inflight') = Len(inflight) + 1
          /\ inflight'[Len(inflight')].text = inputValue]_vars
  /\ [](isProcessing <=> Len(inflight) > 0)
  /\ [][(isProcessing /\ ~isProcessing') <=> (inflight # <<>> /\ ResponseStored)]_vars

\* the state after an accepted submit: the text stored and in flight, the
\* field empty, processing
C21_Witness ==
  /\ isProcessing
  /\ inputValue = <<>>
  /\ Len(inflight) = 1
  /\ messages # <<>>
  /\ messages[Len(messages)].isUser
  /\ messages[Len(messages)].text = inflight[1].text

---------------------------------------------------------------------------
(* Transcripts *)

\* C22: onresult puts the transcript of the first alternative into the input
\* field in place of what was there and sets listening false; the store and
\* the processing flag stay and nothing is sent.
C22_ResultOnlyFillsInput ==
  [][\A k \in Sessions, transcript \in Transcripts :
       OnResult(k, transcript) =>
         /\ inputValue' = transcript
         /\ ~isListening'
         /\ UNCHANGED <<messages, isProcessing, inflight, responded>>]_vars

\* a transcript stands unsent in the field, the session not yet ended and
\* no error reported
C22_Witness ==
  /\ inputValue \in Transcripts
  /\ ~isListening
  /\ ~isProcessing
  /\ recognitionRef # <<>>
  /\ recognitionRef[1].phase = "finishing"
  /\ \A i \in DOMAIN origin : origin[i].kind # "speech"

---------------------------------------------------------------------------
(* The input field during the delay *)

\* C23: the response goes by the text that was submitted: what a chip or a
\* transcript puts into the input field during the delay does not change the
\* text in flight or the intent of the response, and the response leaves
\* the field as it finds it.
C23_ResponseOfSubmittedText ==
  /\ [][AcceptedSubmit => inflight'[Len(inflight')].text = inputValue]_vars
  /\ [][(inflight # <<>> /\ inflight' # <<>> /\ Len(inflight') <= Len(inflight)) =>
          Head(inflight').text = Head(inflight).text]_vars
  /\ [][(inflight # <<>> /\ ResponseStored) =>
          /\ BodyIntents(messages'[Len(messages')]) = { FirstIntent(Head(inflight).text) }
          /\ inputValue' = inputValue]_vars

\* the response to a text without a keyword is due while the field holds a
\* text with a keyword, put there after the submit
C23_Witness ==
  /\ Len(inflight) = 1
  /\ inflight[1].due <= now
  /\ FirstIntent(inflight[1].text) = "default"
  /\ FirstIntent(inputValue) = "quality"

---------------------------------------------------------------------------
(* The area phrase *)

YourArea == {"your area", "apke kshetra"}

ThisArea == {"this area", "is kshetra"}

Says(m, phrases) == \E n \in DOMAIN m.text : m.text[n] \in phrases

\* C24: a response that names the area says "your area" when the location
\* is known and "this area" when it is not, in both languages; without a
\* location no response says "your area".
C24_AreaPhrase ==
  \A i \in DOMAIN origin :
    origin[i].kind = "response" =>
      IF userLocation # <<>>
      THEN ~Says(messages[i], ThisArea)
      ELSE ~Says(messages[i], YourArea)

---------------------------------------------------------------------------
(* Intent by text alone *)

\* C25: intent and flags of a response go by the submitted text alone: run
\* on the same text under any language tag, with or without a location,
\* generateResponse gives the intent, the chart and comparison flags and the
\* prediction marker of the stored response.
C25_IntentByTextOnly ==
  \A a \in Answers, lang \in Languages, loc \in Locations :
    LET m == messages[a[1]]
        r == generateResponse(messages[a[2]].text, lang, loc, m.id)
    IN  /\ r.showChart = m.showChart
        /\ r.showComparison = m.showComparison
        /\ r.isPrediction = m.isPrediction
        /\ BodyIntents(r) = BodyIntents(m)

\* a Hindi quality response to a text whose only keyword is English, and so
\* answered under the tag hi
C25_Witness ==
  \E a \in Answers :
    /\ messages[a[2]].text = <<"hello", "quality">>
    /\ messages[a[1]].text = qualityResponse("hi", userLocation, 0).text

---------------------------------------------------------------------------
(* The two flags *)

\* C26: the listening flag and the processing flag are never both true.
C26_NotListeningAndProcessing == ~(isListening /\ isProcessing)

---------------------------------------------------------------------------
(* LocationData *)

\* C27: LocationData is held exactly while PermissionState is granted: none
\* while pending or denied, set in the step that sets granted, and never
\* changed or cleared after.
C27_LocationIffGranted ==
  /\ [](userLocation # <<>> <=> locationPermission = "granted")
  /\ [][userLocation' # userLocation =>
          /\ userLocation = <<>>
          /\ userLocation' # <<>>
          /\ locationPermission # "granted"
          /\ locationPermission' = "granted"]_vars

\* the position is held in a session with a language change and a turn
C27_Witness ==
  /\ locationPermission = "granted"
  /\ userLocation \in { <<p>> : p \in Positions }
  /\ language = "hi"
  /\ responded = <<1>>

=============================================================================
